---- MODULE Spec2Model ----
(***************************************************************************)
(* A model of lookhash.py: the extraction of NT hashes from a dump file,   *)
(* the split of the extracted file into chunk files, and the bulk lookup   *)
(* loop that posts the hashes 300 at a time to the remote service.         *)
(*                                                                         *)
(* Two views of the program are modelled.                                  *)
(*   Spec        a whole run of main().  A hash is written as its rank in  *)
(*               the sorted extracted file (hash k is the k-th smallest),  *)
(*               so extracted_nt_hashes.txt with n hashes is <<1, .., n>>. *)
(*   ExtractSpec extract_nt_hashes on lines of characters: a line is a     *)
(*               sequence of one-character strings.                        *)
(***************************************************************************)
EXTENDS Integers, Sequences, FiniteSets, TLC

VARIABLES
    pc,           \* position of main(): start, extract, dispatch, call, loop, cleanup, finally, done
    inputKind,    \* the input file: "ok", "missing" (FileNotFoundError), "unreadable" (other Exception)
    nInput,       \* number of distinct hashes the input file holds
    noSplit,      \* args.no_split
    extractOnly,  \* args.extract_only
    hasOutput,    \* args.output given
    outState,     \* output_file: "none" (None), "open", "closed"
    extracted,    \* content of extracted_nt_hashes.txt
    paths,        \* contents of the files bulk_lookup is called on, in call order
    fileIdx,      \* index in paths of the current bulk_lookup call
    hashes,       \* bulk_lookup: the list read from file_path
    i,            \* bulk_lookup: the cursor
    attempts,     \* requests already answered for the batch at the cursor (each a 429)
    console,      \* lines printed (stdout and stderr), in order
    fileOut,      \* lines written to the output file, in order
    clock,        \* time slept so far
    reqLog,       \* history: one record per request issued
    missing,      \* indexes of paths found missing by bulk_lookup
    exitKind,     \* how main() left its try block
    lines,        \* ExtractSpec: the lines of the input file
    origLines,    \* ExtractSpec: the lines of the input file before any edit
    ntHashes,     \* ExtractSpec: the set nt_hashes
    extractedFile, \* ExtractSpec: the lines written to the output file
    edits         \* ExtractSpec: number of edits made to the input file

runVars == <<pc, inputKind, nInput, noSplit, extractOnly, hasOutput, outState,
             extracted, paths, fileIdx, hashes, i, attempts, console, fileOut,
             clock, reqLog, missing, exitKind>>
extractVars == <<lines, origLines, ntHashes, extractedFile, edits>>
vars == <<runVars, extractVars>>

----------------------------------------------------------------------------
(* Program constants *)

BatchSize == 300
LinesPerFile == 500
Backoff == 900
Delay == 5

(* Bounds of the model *)

\* the largest number of hashes an input file holds
MaxHashes == 501
\* the largest number of consecutive 429 answers to one batch: the model
\* follows a batch through at most Max429 + 1 requests
Max429 == 1

Min(a, b) == IF a < b THEN a ELSE b

\* The hash counts explored: those within one of a multiple of the batch size
\* or of the chunk-file size, where the batch boundaries fall.
NearMultiple(n, k) == n % k \in {0, 1, k - 1}
HashCounts == {n \in 0..MaxHashes : NearMultiple(n, BatchSize) \/ NearMultiple(n, LinesPerFile)}

\* Statuses other than 200 and 429 the service answers with.
OtherStatuses == {204, 500}

----------------------------------------------------------------------------
(* Lines of the sink *)

Line(kind, arg) == [kind |-> kind, arg |-> arg]
FoundLine(h) == Line("found", h)          \* "<hash>:<password>", a line of the response body
NotFoundLine(h) == Line("notfound", h)    \* "<hash>:[not found]"
BlankLine == Line("blank", 0)             \* ""
WarnLine == Line("ratelimit", 429)        \* "[!] Rate limit hit (429). Waiting 15 minutes before retrying..."
StatusLine(code) == Line("status", code)  \* "Error: Unexpected status code <code>"
TransportLine == Line("transport", 0)     \* "Error during bulk lookup: <e>"
FileMissingLine(f) == Line("filemissing", f)  \* "File not found: <file_path>"
InputMissingLine == Line("inputmissing", 0)   \* "[!] Error: File '<input_file>' not found"
ExtractErrorLine == Line("extracterror", 0)   \* "[!] Error extracting hashes: <e>"

OutcomeKinds == {"found", "notfound"}
ErrorKinds == {"ratelimit", "status", "transport", "filemissing", "inputmissing", "extracterror"}

----------------------------------------------------------------------------
(* Pure helpers *)

\* Python's s[a:b] for 0 <= a <= b.
Slice(s, a, b) == SubSeq(s, a + 1, Min(b, Len(s)))

\* A slip in the slice bound: hashes[i:i + 299].
Chunk_Short(hs, c) == Slice(hs, c, c + BatchSize - 1)

\* chunk = hashes[i:i + 300]
Chunk(hs, c) == Slice(hs, c, c + BatchSize)

\* A slip in the slice bound: lines[i * lines_per_file: (i + 1) * lines_per_file - 1],
\* which leaves the last line of each chunk out.
SplitFile_ShortSlice(ls, linesPerFile) ==
    LET chunks == (Len(ls) + linesPerFile - 1) \div linesPerFile
    IN  [c \in 1..chunks |-> Slice(ls, (c - 1) * linesPerFile, c * linesPerFile - 1)]

\* split_file: the contents of the chunk files, in the order of split_files.
SplitFile(ls, linesPerFile) ==
    LET chunks == (Len(ls) + linesPerFile - 1) \div linesPerFile
    IN  [c \in 1..chunks |-> Slice(ls, (c - 1) * linesPerFile, c * linesPerFile)]

\* response.text.strip().split("\n"): the body's lines, or one empty string
\* when the body is empty.
ResponseLines(body) ==
    IF body = <<>> THEN <<BlankLine>> ELSE [k \in 1..Len(body) |-> FoundLine(body[k])]

\* The bodies the service answers a batch with: the matched hashes of the
\* batch, in batch order (none of them, the first only, or all).
Bodies(chunk) == {<<>>, chunk} \cup (IF chunk = <<>> THEN {} ELSE {<<chunk[1]>>})

\* print(line) followed by output_file.write(line + "\n") when output_file is set.
ToFile(out, ls) == IF hasOutput THEN out \o ls ELSE out

\* print(error_message, file=sys.stderr) of a message that ends in "\n": the
\* message and an empty line.
ErrPrint(con, line) == con \o <<line, BlankLine>>

----------------------------------------------------------------------------
(* bulk_lookup: one iteration of the while loop *)

\* A slip in the loop condition: while i <= len(hashes).
LoopContinues_Inclusive(hs, c) == c <= Len(hs)

\* while i < len(hashes)
LoopContinues(hs, c) == c < Len(hs)

\* Slips in the cursor update: a 429 branch that advances like the others,
\* an except branch that forgets i += 300, an error branch that forgets it.
CursorAfter_Always(c, outcome) == c + BatchSize
CursorAfter_RetryTransport(c, outcome) ==
    IF outcome \in {"throttled", "transport"} THEN c ELSE c + BatchSize
CursorAfter_RetryStatus(c, outcome) ==
    IF outcome \in {"throttled", "status"} THEN c ELSE c + BatchSize

\* The cursor after a response: i += 300 on 200, on any other status and on a
\* RequestException; unchanged on 429.
CursorAfter(c, outcome) == IF outcome = "throttled" THEN c ELSE c + BatchSize

\* The sleep of an iteration: time.sleep(900) on 429, time.sleep(5) when the
\* status is not 429; the except branch sleeps nowhere.
SleepAfter(outcome) ==
    CASE outcome = "throttled" -> Backoff
      [] outcome = "transport" -> 0
      [] OTHER -> Delay

\* error_message of an iteration that did not get a 200.
ErrorMessage(outcome, code) ==
    CASE outcome = "throttled" -> WarnLine
      [] outcome = "transport" -> TransportLine
      [] OTHER -> StatusLine(code)

\* The lines an iteration writes to output_file.
FileLines(outcome, code, body) ==
    IF outcome = "ok" THEN ResponseLines(body) ELSE <<ErrorMessage(outcome, code)>>

\* The lines an iteration prints.
ConsoleLines(outcome, code, body) ==
    IF outcome = "ok" THEN ResponseLines(body) ELSE ErrPrint(<<>>, ErrorMessage(outcome, code))

\* One iteration: post the chunk at the cursor, handle the answer.
Request(outcome, code, body) ==
    /\ pc = "loop"
    /\ LoopContinues(hashes, i)
    /\ attempts <= Max429
    /\ console' = console \o ConsoleLines(outcome, code, body)
    /\ fileOut' = ToFile(fileOut, FileLines(outcome, code, body))
    /\ i' = CursorAfter(i, outcome)
    /\ clock' = clock + SleepAfter(outcome)
    /\ attempts' = IF i' = i THEN attempts + 1 ELSE 0
    /\ reqLog' = Append(reqLog,
                    [file |-> fileIdx, cursor |-> i, chunk |-> Chunk(hashes, i),
                     outcome |-> outcome, status |-> code, body |-> body,
                     conFrom |-> Len(console) + 1, conTo |-> Len(console'),
                     outFrom |-> Len(fileOut) + 1, outTo |-> Len(fileOut'),
                     slept |-> SleepAfter(outcome)])
    /\ UNCHANGED <<pc, inputKind, nInput, noSplit, extractOnly, hasOutput, outState,
                   extracted, paths, fileIdx, hashes, missing, exitKind, extractVars>>

Resp200 == \E body \in Bodies(Chunk(hashes, i)) : Request("ok", 200, body)

\* The service throttles a batch at most Max429 times in a row.
Resp429 == attempts < Max429 /\ Request("throttled", 429, <<>>)

RespOther == \E code \in OtherStatuses : Request("status", code, <<>>)

TransportError == Request("transport", 0, <<>>)

\* The return of bulk_lookup into main: the next split file, or the clean-up.
AfterBulk ==
    IF ~noSplit /\ fileIdx < Len(paths)
    THEN pc' = "call" /\ fileIdx' = fileIdx + 1
    ELSE pc' = "cleanup" /\ fileIdx' = fileIdx

\* The loop condition fails: bulk_lookup returns.
LoopExit ==
    /\ pc = "loop"
    /\ ~LoopContinues(hashes, i)
    /\ AfterBulk
    /\ UNCHANGED <<inputKind, nInput, noSplit, extractOnly, hasOutput, outState,
                   extracted, paths, hashes, i, attempts, console, fileOut, clock,
                   reqLog, missing, exitKind, extractVars>>

\* An exception that is neither a RequestException nor a FileNotFoundError
\* (an OSError of output_file.write, say) leaves bulk_lookup.
LookupEscapes ==
    /\ pc = "loop"
    /\ LoopContinues(hashes, i)
    /\ attempts <= Max429
    /\ pc' = "finally"
    /\ exitKind' = "exception"
    /\ UNCHANGED <<inputKind, nInput, noSplit, extractOnly, hasOutput, outState,
                   extracted, paths, fileIdx, hashes, i, attempts, console, fileOut,
                   clock, reqLog, missing, extractVars>>

\* with open(file_path): hashes = the non-empty stripped lines; i = 0
BulkOpen ==
    /\ pc = "call"
    /\ hashes' = paths[fileIdx]
    /\ i' = 0
    /\ attempts' = 0
    /\ pc' = "loop"
    /\ UNCHANGED <<inputKind, nInput, noSplit, extractOnly, hasOutput, outState,
                   extracted, paths, fileIdx, console, fileOut, clock, reqLog,
                   missing, exitKind, extractVars>>

\* open(file_path) raises FileNotFoundError: the message, and bulk_lookup returns.
BulkFileNotFound ==
    /\ pc = "call"
    /\ console' = ErrPrint(console, FileMissingLine(fileIdx))
    /\ fileOut' = ToFile(fileOut, <<FileMissingLine(fileIdx)>>)
    /\ missing' = missing \cup {fileIdx}
    /\ AfterBulk
    /\ UNCHANGED <<inputKind, nInput, noSplit, extractOnly, hasOutput, outState,
                   extracted, paths, hashes, i, attempts, clock, reqLog, exitKind,
                   extractVars>>

----------------------------------------------------------------------------
(* extract_nt_hashes, on lines of characters *)

\* The largest number of lines of an input file
MaxLines == 2
\* The largest number of edits (a line repeated, a line padded) made to it
MaxEdits == 2

\* The characters of the lines explored, in code point order.
Ascii ==
    <<"\t", " ", "0", "1", "2", "3", "4", "5", "6", "7", "8", "9", ":",
      "A", "B", "C", "D", "E", "F", "O", "P", "R", "\\",
      "a", "b", "c", "d", "e", "f", "i", "j", "m", "n", "o", "p", "s", "u">>

Ord(c) == CHOOSE k \in DOMAIN Ascii : Ascii[k] = c

\* \s
IsSpace(c) == c \in {" ", "\t"}
\* \d
IsDigit(c) == c \in {"0", "1", "2", "3", "4", "5", "6", "7", "8", "9"}
\* [a-f0-9]
IsHexLower(c) == IsDigit(c) \/ c \in {"a", "b", "c", "d", "e", "f"}
\* [^\s:]
IsNameChar(c) == ~IsSpace(c) /\ c # ":"

\* A slip: the line used as read, trailing newline and padding included.
Strip_None(line) == line

RECURSIVE Strip(_)
\* line.strip()
Strip(line) ==
    IF line = <<>> THEN line
    ELSE IF IsSpace(Head(line)) THEN Strip(Tail(line))
    ELSE IF IsSpace(line[Len(line)]) THEN Strip(SubSeq(line, 1, Len(line) - 1))
    ELSE line

\* All of line[a..b] are [a-f0-9].
HexRun(line, a, b) == \A k \in a..b : IsHexLower(line[k])

\* The end of \d+ started at a: the first position from a on that holds no digit.
DigitsEnd(line, a) ==
    CHOOSE q \in a..(Len(line) + 1) :
        /\ q = Len(line) + 1 \/ ~IsDigit(line[q])
        /\ \A k \in a..(q - 1) : IsDigit(line[k])

\* :\d+:[a-f0-9]{32}:([a-f0-9]{32}):::  matches with its first colon at p.
TailAt(line, p) ==
    LET q == DigitsEnd(line, p + 1)
    IN  /\ line[p] = ":"
        /\ q > p + 1
        /\ q + 68 <= Len(line)
        /\ line[q] = ":"
        /\ HexRun(line, q + 1, q + 32)
        /\ line[q + 33] = ":"
        /\ HexRun(line, q + 34, q + 65)
        /\ line[q + 66] = ":" /\ line[q + 67] = ":" /\ line[q + 68] = ":"

\* The positions of the colon that ends [^\s:]+ in a match of the pattern
\* (?:[^\s:]+\\)?[^\s:]+:\d+:[a-f0-9]{32}:([a-f0-9]{32}):::
\* The name before it is one or more characters that are neither blank nor a
\* colon, of which the optional domain and its backslash are some.
MatchColons(line) ==
    {p \in 2..Len(line) : IsNameChar(line[p - 1]) /\ TailAt(line, p)}

\* re.search(pattern, line) is not None
DumpMatches(line) == MatchColons(line) # {}

\* match.group(1) of the leftmost match
Group1(line) ==
    LET p == CHOOSE x \in MatchColons(line) : \A y \in MatchColons(line) : x <= y
        q == DigitsEnd(line, p + 1)
    IN  SubSeq(line, q + 34, q + 65)

\* re.match(r'^[a-f0-9]{32}$', line)
PlainHash(line) == Len(line) = 32 /\ HexRun(line, 1, 32)

\* The body of the for loop: the set nt_hashes after one more line.
ExtractLine(acc, raw) ==
    LET line == Strip(raw)
    IN  IF line = <<>> THEN acc
        ELSE IF DumpMatches(line) THEN acc \cup {Group1(line)}
        ELSE IF PlainHash(line) THEN acc \cup {line}
        ELSE acc

RECURSIVE ExtractFrom(_, _)
\* nt_hashes after the first k lines of the file.
ExtractFrom(ls, k) == IF k = 0 THEN {} ELSE ExtractLine(ExtractFrom(ls, k - 1), ls[k])

\* nt_hashes after the for loop.
ExtractNtHashes(ls) == ExtractFrom(ls, Len(ls))

RECURSIVE LexLess(_, _)
\* a < b on Python strings: by code point, a proper prefix first.
LexLess(a, b) ==
    IF b = <<>> THEN FALSE
    ELSE IF a = <<>> THEN TRUE
    ELSE IF Head(a) = Head(b) THEN LexLess(Tail(a), Tail(b))
    ELSE Ord(Head(a)) < Ord(Head(b))

RECURSIVE Sorted(_)
\* sorted(nt_hashes)
Sorted(S) ==
    IF S = {} THEN <<>>
    ELSE LET m == CHOOSE x \in S : \A y \in S : x = y \/ LexLess(x, y)
         IN  <<m>> \o Sorted(S \ {m})

\* aad3b435b51404eeaad3b435b51404ee
LmHash ==
    <<"a","a","d","3","b","4","3","5","b","5","1","4","0","4","e","e","a","a","d","3","b","4",
      "3","5","b","5","1","4","0","4","e","e">>

\* 5835048ce94ad0564e29a924a03510ef
NtHashA ==
    <<"5","8","3","5","0","4","8","c","e","9","4","a","d","0","5","6","4","e","2","9","a","9",
      "2","4","a","0","3","5","1","0","e","f">>

\* 31d6cfe0d16ae931b73c59d7e0c089c0
NtHashB ==
    <<"3","1","d","6","c","f","e","0","d","1","6","a","e","9","3","1","b","7","3","c","5","9",
      "d","7","e","0","c","0","8","9","c","0">>

\* 0cb6948805f797bf2a82807973b89537
NtHashC ==
    <<"0","c","b","6","9","4","8","8","0","5","f","7","9","7","b","f","2","a","8","2","8","0",
      "7","9","7","3","b","8","9","5","3","7">>

\* 31D6CFE0D16AE931B73C59D7E0C089C0
NtHashBUpper ==
    <<"3","1","D","6","C","F","E","0","D","1","6","A","E","9","3","1","B","7","3","C","5","9",
      "D","7","E","0","C","0","8","9","C","0">>

Colon == <<":">>
User(name, rid) == name \o Colon \o rid \o Colon
DumpLine(name, rid, lm, nt) == User(name, rid) \o lm \o Colon \o nt \o Colon \o Colon \o Colon

\* The lines an input file is made of.
Catalog ==
    { \* CORP\jdoe:1001:<lm>:<nt A>:::
      DumpLine(<<"C", "O", "R", "P", "\\", "j", "d", "o", "e">>, <<"1", "0", "0", "1">>, LmHash, NtHashA),
      \* admin:500:<lm>:<nt B>:::
      DumpLine(<<"a", "d", "m", "i", "n">>, <<"5", "0", "0">>, LmHash, NtHashB),
      \* plain hashes: A again, C, and B in upper case
      NtHashA,
      NtHashC,
      NtHashBUpper,
      \* 31 hexadecimal characters
      SubSeq(NtHashC, 1, 31),
      \* an empty line
      <<>> }

RECURSIVE SeqsUpTo(_, _)
\* The sequences over S of length at most n.
SeqsUpTo(S, n) ==
    IF n = 0 THEN {<<>>}
    ELSE LET shorter == SeqsUpTo(S, n - 1)
         IN  shorter \cup {Append(s, x) : s \in {t \in shorter : Len(t) = n - 1}, x \in S}

----------------------------------------------------------------------------
(* main *)

\* A close placed at the end of the try block instead of in a finally block.
CloseOnExit_NormalOnly(st) == IF st = "open" /\ exitKind = "completed" THEN "closed" ELSE st

\* The finally block: output_file.close() if output_file.
CloseOnExit(st) == IF st = "open" THEN "closed" ELSE st

\* output_file = open(args.output, "w"), or None without -o.
OpenOutput ==
    /\ pc = "start"
    /\ outState' = IF hasOutput THEN "open" ELSE "none"
    /\ pc' = "extract"
    /\ UNCHANGED <<inputKind, nInput, noSplit, extractOnly, hasOutput, extracted,
                   paths, fileIdx, hashes, i, attempts, console, fileOut, clock,
                   reqLog, missing, exitKind, extractVars>>

\* open raises IOError: sys.exit(1) before the try block is entered.
OpenOutputFails ==
    /\ pc = "start"
    /\ hasOutput
    /\ pc' = "done"
    /\ exitKind' = "openfailed"
    /\ UNCHANGED <<inputKind, nInput, noSplit, extractOnly, hasOutput, outState,
                   extracted, paths, fileIdx, hashes, i, attempts, console, fileOut,
                   clock, reqLog, missing, extractVars>>

\* extract_nt_hashes returns: the sorted distinct hashes are in the extracted file.
ExtractOk ==
    /\ pc = "extract"
    /\ inputKind = "ok"
    /\ extracted' = [k \in 1..nInput |-> k]
    /\ pc' = "dispatch"
    /\ UNCHANGED <<inputKind, nInput, noSplit, extractOnly, hasOutput, outState,
                   paths, fileIdx, hashes, i, attempts, console, fileOut, clock,
                   reqLog, missing, exitKind, extractVars>>

\* The message extract_nt_hashes prints before sys.exit(1).
ExtractFailure(kind) == IF kind = "missing" THEN InputMissingLine ELSE ExtractErrorLine

\* except FileNotFoundError / except Exception: print, sys.exit(1).
ExtractExits ==
    /\ pc = "extract"
    /\ inputKind # "ok"
    /\ console' = Append(console, ExtractFailure(inputKind))
    /\ exitKind' = "sysexit"
    /\ pc' = "finally"
    /\ UNCHANGED <<inputKind, nInput, noSplit, extractOnly, hasOutput, outState,
                   extracted, paths, fileIdx, hashes, i, attempts, fileOut, clock,
                   reqLog, missing, extractVars>>

\* if args.extract_only: return
ReturnExtractOnly ==
    /\ pc = "dispatch"
    /\ extractOnly
    /\ exitKind' = "extract_only"
    /\ pc' = "finally"
    /\ UNCHANGED <<inputKind, nInput, noSplit, extractOnly, hasOutput, outState,
                   extracted, paths, fileIdx, hashes, i, attempts, console, fileOut,
                   clock, reqLog, missing, extractVars>>

\* A slip: the hash_count == 0 check left out, so that main goes on to the
\* lookup of an empty extracted file.
ReturnNoHashes_Missing ==
    /\ pc = "dispatch"
    /\ ~extractOnly
    /\ Len(extracted) = 0
    /\ paths' = IF noSplit THEN <<extracted>> ELSE SplitFile(extracted, LinesPerFile)
    /\ fileIdx' = 1
    /\ pc' = IF paths' = <<>> THEN "cleanup" ELSE "call"
    /\ UNCHANGED <<inputKind, nInput, noSplit, extractOnly, hasOutput, outState,
                   extracted, hashes, i, attempts, console, fileOut, clock, reqLog,
                   missing, exitKind, extractVars>>

\* if hash_count == 0: return
ReturnNoHashes ==
    /\ pc = "dispatch"
    /\ ~extractOnly
    /\ Len(extracted) = 0
    /\ exitKind' = "no_hashes"
    /\ pc' = "finally"
    /\ UNCHANGED <<inputKind, nInput, noSplit, extractOnly, hasOutput, outState,
                   extracted, paths, fileIdx, hashes, i, attempts, console, fileOut,
                   clock, reqLog, missing, extractVars>>

\* if args.no_split: bulk_lookup(hash_type, extracted_file, output_file)
DirectLookup ==
    /\ pc = "dispatch"
    /\ ~extractOnly
    /\ Len(extracted) # 0
    /\ noSplit
    /\ paths' = <<extracted>>
    /\ fileIdx' = 1
    /\ pc' = "call"
    /\ UNCHANGED <<inputKind, nInput, noSplit, extractOnly, hasOutput, outState,
                   extracted, hashes, i, attempts, console, fileOut, clock, reqLog,
                   missing, exitKind, extractVars>>

\* else: split_files = split_file(extracted_file, "temp_split", 500), then
\* bulk_lookup on each of them in order.
SplitLookup ==
    /\ pc = "dispatch"
    /\ ~extractOnly
    /\ Len(extracted) # 0
    /\ ~noSplit
    /\ paths' = SplitFile(extracted, LinesPerFile)
    /\ fileIdx' = 1
    /\ pc' = "call"
    /\ UNCHANGED <<inputKind, nInput, noSplit, extractOnly, hasOutput, outState,
                   extracted, hashes, i, attempts, console, fileOut, clock, reqLog,
                   missing, exitKind, extractVars>>

\* Removal of the temporary files.  In split mode os.remove of a chunk file
\* that is not there raises FileNotFoundError, which leaves main.
Cleanup ==
    /\ pc = "cleanup"
    /\ exitKind' = IF ~noSplit /\ missing # {} THEN "exception" ELSE "completed"
    /\ pc' = "finally"
    /\ UNCHANGED <<inputKind, nInput, noSplit, extractOnly, hasOutput, outState,
                   extracted, paths, fileIdx, hashes, i, attempts, console, fileOut,
                   clock, reqLog, missing, extractVars>>

\* finally: if output_file: output_file.close()
Finally ==
    /\ pc = "finally"
    /\ outState' = CloseOnExit(outState)
    /\ pc' = "done"
    /\ UNCHANGED <<inputKind, nInput, noSplit, extractOnly, hasOutput, extracted,
                   paths, fileIdx, hashes, i, attempts, console, fileOut, clock,
                   reqLog, missing, exitKind, extractVars>>

ExtractIdle ==
    /\ lines = <<>>
    /\ origLines = <<>>
    /\ ntHashes = {}
    /\ extractedFile = <<>>
    /\ edits = 0

Init ==
    /\ pc = "start"
    /\ inputKind \in {"ok", "missing", "unreadable"}
    /\ nInput \in IF inputKind = "ok" THEN HashCounts ELSE {0}
    /\ noSplit \in BOOLEAN
    /\ extractOnly \in BOOLEAN
    /\ hasOutput \in BOOLEAN
    /\ outState = "none"
    /\ extracted = <<>>
    /\ paths = <<>>
    /\ fileIdx = 0
    /\ hashes = <<>>
    /\ i = 0
    /\ attempts = 0
    /\ console = <<>>
    /\ fileOut = <<>>
    /\ clock = 0
    /\ reqLog = <<>>
    /\ missing = {}
    /\ exitKind = "running"
    /\ ExtractIdle

Next ==
    \/ OpenOutput
    \/ OpenOutputFails
    \/ ExtractOk
    \/ ExtractExits
    \/ ReturnExtractOnly
    \/ ReturnNoHashes
    \/ DirectLookup
    \/ SplitLookup
    \/ BulkOpen
    \/ BulkFileNotFound
    \/ Resp200
    \/ Resp429
    \/ RespOther
    \/ TransportError
    \/ LoopExit
    \/ LookupEscapes
    \/ Cleanup
    \/ Finally

Spec == Init /\ [][Next]_vars

----------------------------------------------------------------------------
(* extract_nt_hashes on an input file, and the edits of the file that are to
   leave its result alone *)

RunIdle ==
    /\ inputKind = "ok" /\ nInput = 0
    /\ noSplit = FALSE /\ extractOnly = TRUE /\ hasOutput = FALSE
    /\ outState = "none" /\ extracted = <<>> /\ paths = <<>> /\ fileIdx = 0
    /\ hashes = <<>> /\ i = 0 /\ attempts = 0 /\ console = <<>> /\ fileOut = <<>>
    /\ clock = 0 /\ reqLog = <<>> /\ missing = {} /\ exitKind = "running"

ExtractInit ==
    /\ pc = "x_edit"
    /\ RunIdle
    /\ origLines \in SeqsUpTo(Catalog, MaxLines)
    /\ lines = origLines
    /\ ntHashes = {}
    /\ extractedFile = <<>>
    /\ edits = 0

\* A line of the file is repeated at the end of the file.
DuplicateLine ==
    /\ pc = "x_edit"
    /\ edits < MaxEdits
    /\ \E k \in DOMAIN lines : lines' = Append(lines, lines[k])
    /\ edits' = edits + 1
    /\ UNCHANGED <<runVars, origLines, ntHashes, extractedFile>>

\* A line of the file is padded: a blank before it, or a tab after it.
PadLine ==
    /\ pc = "x_edit"
    /\ edits < MaxEdits
    /\ \E k \in DOMAIN lines, front \in BOOLEAN :
           lines' = [lines EXCEPT ![k] = IF front THEN <<" ">> \o @ ELSE Append(@, "\t")]
    /\ edits' = edits + 1
    /\ UNCHANGED <<runVars, origLines, ntHashes, extractedFile>>

\* extract_nt_hashes(input_file, output_file) on a file that is there: the
\* set, and the sorted lines written to the output file.
RunExtract ==
    /\ pc = "x_edit"
    /\ ntHashes' = ExtractNtHashes(lines)
    /\ extractedFile' = Sorted(ntHashes')
    /\ pc' = "x_done"
    /\ UNCHANGED <<inputKind, nInput, noSplit, extractOnly, hasOutput, outState,
                   extracted, paths, fileIdx, hashes, i, attempts, console, fileOut,
                   clock, reqLog, missing, exitKind, lines, origLines, edits>>

ExtractNext == DuplicateLine \/ PadLine \/ RunExtract

ExtractSpec == ExtractInit /\ [][ExtractNext]_vars

\* The program runs on its own: whenever a step is possible, one is taken.
LiveSpec == Spec /\ WF_vars(Next)

----------------------------------------------------------------------------
(* The request history *)

Requests == DOMAIN reqLog
LastReq(log) == log[Len(log)]
SameBatch(a, b) == a.file = b.file /\ a.cursor = b.cursor

\* Request k repeats the request before it, which was answered 429.
IsResubmission(k) ==
    k > 1 /\ reqLog[k - 1].outcome = "throttled" /\ reqLog[k - 1].file = reqLog[k].file

\* The batches submitted, resubmissions left out, in submission order.
FirstSubmissions == {k \in Requests : ~IsResubmission(k)}

RECURSIVE SubmittedUpTo(_)
\* The hashes of the first k requests' batches, resubmissions left out.
SubmittedUpTo(k) ==
    IF k = 0 THEN <<>>
    ELSE SubmittedUpTo(k - 1) \o (IF IsResubmission(k) THEN <<>> ELSE reqLog[k].chunk)

SubmittedHashes == SubmittedUpTo(Len(reqLog))

\* The lines request k put on the console.
EmittedBy(k) == SubSeq(console, reqLog[k].conFrom, reqLog[k].conTo)

\* What a step appended to a log.
Added(old, new) == SubSeq(new, Len(old) + 1, Len(new))
Extends(old, new) == Len(new) >= Len(old) /\ SubSeq(new, 1, Len(old)) = old

Range(s) == {s[k] : k \in DOMAIN s}
CountKind(s, kinds) == Cardinality({k \in DOMAIN s : s[k].kind \in kinds})
CeilDiv(a, b) == (a + b - 1) \div b

\* A step that issued a request.
NewRequest == Len(reqLog') = Len(reqLog) + 1

\* A whole lookup run: main came to its end through the clean-up, and every
\* file bulk_lookup was called on was there.
LookupRunComplete == pc = "done" /\ exitKind = "completed" /\ missing = {}

----------------------------------------------------------------------------
(* C1 *)

\* C1: every request answered 200 puts exactly one outcome line per hash of its
\* batch on the sink: the hash:password line for a hash in the body, the
\* [not found] line for a hash of the batch that is not in the body.
C1_OneLinePerHash ==
    \A k \in Requests :
        reqLog[k].outcome = "ok" =>
            LET r == reqLog[k]
                e == EmittedBy(k)
            IN  /\ Len(e) = Len(r.chunk)
                /\ \A j \in DOMAIN r.chunk :
                       LET h == r.chunk[j]
                           want == IF h \in Range(r.body) THEN FoundLine(h) ELSE NotFoundLine(h)
                       IN  Cardinality({x \in DOMAIN e : e[x] = want}) = 1

----------------------------------------------------------------------------
(* C2 *)

\* The outcome lines on the console are those of the 200 answers, each batch
\* answered 200 at most once, and no 429 put an outcome line on the console.
OutcomesOnce ==
    /\ \A k, l \in Requests :
           (k < l /\ reqLog[k].outcome = "ok" /\ reqLog[l].outcome = "ok")
               => ~SameBatch(reqLog[k], reqLog[l])
    /\ \A k \in Requests :
           reqLog[k].outcome = "throttled" => CountKind(EmittedBy(k), OutcomeKinds) = 0
    /\ LET ok == {k \in Requests : reqLog[k].outcome = "ok"}
           RECURSIVE Sum(_)
           Sum(S) == IF S = {} THEN 0
                     ELSE LET k == CHOOSE x \in S : TRUE
                          IN  Len(reqLog[k].body) + Sum(S \ {k})
       IN  CountKind(console, OutcomeKinds) = Sum(ok)

\* A step whose request was answered 429.
Step429 == NewRequest /\ LastReq(reqLog').status = 429

----------------------------------------------------------------------------
(* C3 *)

\* A batch answered with an error is not submitted again, and the request
\* after it in the same call is for the following batch.
NeverAgain ==
    \A k, l \in Requests :
        (k < l /\ reqLog[k].outcome \in {"status", "transport"} /\ reqLog[k].file = reqLog[l].file)
            => /\ reqLog[l].cursor >= reqLog[k].cursor + 300
               /\ (l = k + 1 => reqLog[l].cursor = reqLog[k].cursor + 300)

\* A step whose request got a status other than 200 and 429, or failed in transport.
StepError == NewRequest /\ LastReq(reqLog').outcome \in {"status", "transport"}

\* C3: such a step emits exactly one error line and moves the cursor on by
\* exactly one batch; the batch is never submitted again and the run goes on.
C3_ErrorSkipsBatch ==
    [][ /\ StepError =>
            /\ i' = i + 300 /\ hashes' = hashes /\ pc' = "loop"
            /\ Extends(console, console') /\ Extends(fileOut, fileOut')
            /\ Len(Added(fileOut, fileOut')) = (IF hasOutput THEN 1 ELSE 0)
            /\ CountKind(Added(fileOut, fileOut'), {"status", "transport"}) = (IF hasOutput THEN 1 ELSE 0)
            /\ CountKind(Added(console, console'), {"status", "transport"}) = 1
            /\ CountKind(Added(console, console'), OutcomeKinds \cup {"ratelimit"}) = 0
        /\ NeverAgain'
      ]_vars

\* A transport failure followed by the request for the next batch, which got
\* an unexpected status, after which the run went on with the next chunk file.
C3_Witness ==
    \E k, m \in Requests :
        /\ k + 1 < m
        /\ reqLog[k].outcome = "transport"
        /\ reqLog[k + 1].outcome = "status"
        /\ reqLog[k + 1].file = reqLog[k].file
        /\ reqLog[k + 1].cursor = reqLog[k].cursor + 300
        /\ reqLog[m].file = reqLog[k].file + 1

----------------------------------------------------------------------------
(* C4 *)

----------------------------------------------------------------------------
(* C5 *)

IsPrefix(a, b) == Len(a) <= Len(b) /\ SubSeq(b, 1, Len(a)) = a

\* C5: the batches submitted, in submission order and without the
\* resubmissions, concatenate to the sorted extracted hashes: a prefix of them
\* while the run is under way, all of them at its end.
C5_LosslessPartition ==
    /\ missing = {} => IsPrefix(SubmittedHashes, extracted)
    /\ LookupRunComplete => SubmittedHashes = extracted

\* A complete run in split mode over more than one chunk file.
C5_Witness ==
    /\ LookupRunComplete /\ ~noSplit /\ Len(paths) > 1
    /\ Cardinality(FirstSubmissions) >= 3
    /\ \E k \in Requests : IsResubmission(k)

----------------------------------------------------------------------------
(* C6 *)

\* Request k is the last first submission of the run.
LastOfRun(k) == \A l \in FirstSubmissions : l <= k
\* Request k is the last first submission of its call.
LastOfFile(k) == \A l \in FirstSubmissions : reqLog[l].file = reqLog[k].file => l <= k

\* C6 as stated: in both modes every batch has exactly 300 hashes but possibly
\* the last of the run, and there are ceil(n/300) batches.
C6_Original ==
    LookupRunComplete =>
        /\ \A k \in FirstSubmissions : LastOfRun(k) \/ Len(reqLog[k].chunk) = 300
        /\ Cardinality(FirstSubmissions) = CeilDiv(Len(extracted), 300)

\* The number of lines of the f-th chunk file of n lines split 500 at a time.
FileLen(n, f) == Min(500, n - 500 * (f - 1))

RECURSIVE BatchesOfFiles(_, _)
\* The batches of the first f chunk files of n lines.
BatchesOfFiles(n, f) ==
    IF f = 0 THEN 0 ELSE BatchesOfFiles(n, f - 1) + CeilDiv(FileLen(n, f), 300)

\* C6 amended: without the split the claim holds as stated; with it, it holds
\* of each chunk file of 500 lines, so that a batch is shorter than 300 when it
\* is the last of its chunk file, and the batches number the sum over the
\* chunk files of ceil(len/300).
C6_BatchSizes ==
    LookupRunComplete =>
        LET n == Len(extracted) IN
        /\ \A k \in FirstSubmissions :
               /\ Len(reqLog[k].chunk) \in 1..300
               /\ Len(reqLog[k].chunk) = 300 \/ LastOfFile(k)
               /\ noSplit => (Len(reqLog[k].chunk) = 300 \/ LastOfRun(k))
               /\ (~noSplit /\ LastOfFile(k)) =>
                      Len(reqLog[k].chunk) = FileLen(n, reqLog[k].file) - reqLog[k].cursor
        /\ noSplit => Cardinality(FirstSubmissions) = CeilDiv(n, 300)
        /\ ~noSplit => Cardinality(FirstSubmissions) = BatchesOfFiles(n, CeilDiv(n, 500))

\* A complete split run in which a batch of 200 is followed by another batch
\* and the batches are more than ceil(n/300).
C6_Witness ==
    /\ LookupRunComplete /\ ~noSplit
    /\ \E k \in FirstSubmissions : Len(reqLog[k].chunk) = 200 /\ ~LastOfRun(k)
    /\ Cardinality(FirstSubmissions) > CeilDiv(Len(extracted), 300)

----------------------------------------------------------------------------
(* C9 *)

\* C9: with an output file, every error line on the console is in the output
\* file too, as often.
C9_ErrorsInFile ==
    hasOutput =>
        \A k \in DOMAIN console :
            console[k].kind \in ErrorKinds =>
                Cardinality({x \in DOMAIN fileOut : fileOut[x] = console[k]})
                    = Cardinality({x \in DOMAIN console : console[x] = console[k]})

----------------------------------------------------------------------------
(* C10 *)

\* C10: when main has ended, an output file it opened is closed.
C10_ClosedOnExit ==
    pc = "done" => /\ outState # "open"
                   /\ (hasOutput /\ exitKind # "openfailed") => outState = "closed"

\* A run ended by an exception out of bulk_lookup: the output file was
\* opened, written and closed.
C10_Witness ==
    /\ pc = "done" /\ exitKind = "exception" /\ reqLog # <<>>
    /\ outState = "closed" /\ fileOut # <<>>

----------------------------------------------------------------------------
(* C7 *)

IsHex(c) == IsHexLower(c) \/ c \in {"A", "B", "C", "D", "E", "F"}
LowerChar(c) ==
    CASE c = "A" -> "a" [] c = "B" -> "b" [] c = "C" -> "c"
      [] c = "D" -> "d" [] c = "E" -> "e" [] c = "F" -> "f" [] OTHER -> c
Lower(str) == [k \in DOMAIN str |-> LowerChar(str[k])]
AllHex(str, a, b) == \A k \in a..b : IsHex(str[k])
Colons(str) == {k \in DOMAIN str : str[k] = ":"}

\* The line reads [domain\]user:uid:lmhash:nthash::: from end to end, the two
\* hashes being 32 hexadecimal characters each.
IsDumpLine(str) ==
    /\ Cardinality(Colons(str)) = 6
    /\ LET p == CHOOSE x \in Colons(str) : \A y \in Colons(str) : x <= y
           q == Len(str) - 68
       IN  /\ p > 1 /\ q > p + 1
           /\ \A k \in 1..(p - 1) : IsNameChar(str[k])
           /\ \A k \in (p + 1)..(q - 1) : IsDigit(str[k])
           /\ Colons(str) = {p, q, q + 33, q + 66, q + 67, q + 68}
           /\ AllHex(str, q + 1, q + 32) /\ AllHex(str, q + 34, q + 65)

\* What C7 has a line contribute.
Contributes(raw) ==
    LET str == Strip(raw)
    IN  IF IsDumpLine(str) THEN {Lower(SubSeq(str, Len(str) - 34, Len(str) - 3))}
        ELSE IF Len(str) = 32 /\ AllHex(str, 1, 32) THEN {Lower(str)}
        ELSE {}

\* C7: a dump line contributes its NT hash, a line of exactly 32 hexadecimal
\* characters contributes itself in lower case, any other line contributes
\* nothing, and every member of the set matches ^[0-9a-f]{32}$.
C7_LineMapping ==
    pc = "x_done" =>
        /\ ntHashes = UNION {Contributes(lines[k]) : k \in DOMAIN lines}
        /\ \A h \in ntHashes : Len(h) = 32 /\ \A k \in 1..32 : IsHexLower(h[k])

----------------------------------------------------------------------------
(* C8 *)

\* C8: the set extracted from the file with lines repeated and padded is the
\* set extracted from the file as it was, and the file written lists each of
\* its hashes once, in sorted order.
C8_DuplicatesAndPadding ==
    pc = "x_done" =>
        /\ ntHashes = ExtractNtHashes(origLines)
        /\ Range(extractedFile) = ntHashes
        /\ Len(extractedFile) = Cardinality(ntHashes)
        /\ \A k \in 1..(Len(extractedFile) - 1) :
               LexLess(extractedFile[k], extractedFile[k + 1])

\* Two hashes extracted from a file with a line repeated and a line padded.
C8_Witness ==
    /\ pc = "x_done"
    /\ Len(lines) > Len(origLines)
    /\ \E k \in DOMAIN lines : Strip(lines[k]) # lines[k] /\ ExtractLine({}, lines[k]) # {}
    /\ Cardinality(ntHashes) >= 2

----------------------------------------------------------------------------
(* C11 *)

\* extract_nt_hashes has read the input file, which holds no hash.
NoHashesInput ==
    /\ inputKind = "ok" /\ nInput = 0
    /\ pc \notin {"start", "extract"} /\ exitKind # "openfailed"

----------------------------------------------------------------------------
(* C12 *)

\* A step that issued a request after which the loop goes on to another one.
RequestThenAnother == NewRequest /\ pc' = "loop" /\ i' < Len(hashes')

\* C12: between a request and the next one of the same call a delay elapses:
\* 900 when the request was answered 429, and 5 in every other case, a
\* transport failure included.
C12_DelayBetweenRequests ==
    [][ RequestThenAnother =>
            clock' - clock = IF LastReq(reqLog').status = 429 THEN 900 ELSE 5
      ]_vars

----------------------------------------------------------------------------
(* C13 *)

\* Every request carried hashes[i:i+300] of its file, 1 to 300 of them, at a
\* cursor that is a multiple of 300.
BatchShape ==
    \A k \in Requests :
        LET r == reqLog[k]
            hs == paths[r.file]
            n == Len(r.chunk)
        IN  /\ r.cursor >= 0 /\ r.cursor % 300 = 0
            /\ n \in 1..300
            /\ n = 300 \/ r.cursor + n = Len(hs)
            /\ r.chunk = [j \in 1..n |-> hs[r.cursor + j]]

\* The requests of a call start at cursor 0 and go on batch by batch: the same
\* cursor after a 429, the next multiple of 300 after anything else; the calls
\* follow the order of the files.
BatchOrder ==
    \A k \in Requests :
        IF k = 1 \/ reqLog[k - 1].file # reqLog[k].file
        THEN reqLog[k].cursor = 0 /\ (k > 1 => reqLog[k - 1].file < reqLog[k].file)
        ELSE reqLog[k].cursor =
                 reqLog[k - 1].cursor + (IF reqLog[k - 1].status = 429 THEN 0 ELSE 300)

\* C13: in bulk_lookup the cursor is a non-negative multiple of 300 that never
\* decreases; a step leaves it alone (an iteration does so on 429 only) or
\* adds exactly 300; each batch is hashes[i:i+300] with 1 to 300 elements, and
\* the batches go out one at a time in increasing order, none skipped.
C13_CursorSteps ==
    [][ /\ pc = "loop" =>
            /\ i' = i \/ i' = i + 300
            /\ (NewRequest /\ i' = i) => LastReq(reqLog').status = 429
            /\ (NewRequest /\ LastReq(reqLog').status = 429) => i' = i
            /\ NewRequest =>
                   /\ LastReq(reqLog').cursor = i
                   /\ LastReq(reqLog').chunk = SubSeq(hashes, i + 1, Min(i + 300, Len(hashes)))
                   /\ Len(reqLog') = Len(reqLog) + 1
                   /\ SubSeq(reqLog', 1, Len(reqLog)) = reqLog
        /\ (i' >= 0 /\ i' % 300 = 0)
        /\ BatchShape'
        /\ BatchOrder'
      ]_vars

\* A call in which a batch of 300 was answered 429, sent again, and followed
\* by the last, shorter batch.
C13_Witness ==
    \E k \in Requests :
        /\ k + 2 \in Requests
        /\ reqLog[k].status = 429 /\ reqLog[k].cursor = 0
        /\ reqLog[k + 1].cursor = 0 /\ reqLog[k + 1].chunk = reqLog[k].chunk
        /\ reqLog[k + 2].file = reqLog[k].file /\ reqLog[k + 2].cursor = 300
        /\ Len(reqLog[k + 2].chunk) < 300

====
